---- MODULE Spec2Model ----
(***************************************************************************)
(* Model of src/commands/apps.js (puter-cli): the commands listApps,       *)
(* createApp, deleteApp, listSubdomains, deleteSubdomain, deleteSite and   *)
(* deploySite.  A command is a sequence of awaited remote calls; one       *)
(* action of the model issues one remote call, receives the answer the     *)
(* remote side gives, and runs the command up to its next remote call or   *)
(* to its return.  Strings are sequences of one-character strings, so that *)
(* split, startsWith and for..of over a string do what the code does.      *)
(***************************************************************************)
EXTENDS Integers, Sequences, FiniteSets, TLC

VARIABLES
    pc,          \* position of the running command ("idle" before any, "done" after a return)
    cmd,         \* the command invoked last
    argv,        \* the arguments it was invoked with
    loc,         \* its local variables
    ds,          \* the running deleteSubdomain call: ids iterated, position, caller
    calls,       \* remote calls issued by the invocation, in order, each with its answer
    out,         \* messages printed by the invocation, in order
    ret,         \* "running", or how the invocation ended: "undefined", "true", "false", "throw"
    subdomains   \* the subdomain bindings held by the remote side

vars == <<pc, cmd, argv, loc, ds, calls, out, ret, subdomains>>

-----------------------------------------------------------------------------
(* Bounds *)

\* longest list of ids given to deleteSubdomain on the command line
MaxIds == 2

\* longest list of site uuids given to deleteSite on the command line
MaxSites == 1

-----------------------------------------------------------------------------
(* Strings *)

Undefined == <<"<undefined>">>
Null == <<"<null>">>

\* JavaScript truthiness of a string-or-undefined value
Truthy(s) == s # Undefined /\ s # Null /\ s # <<>>

StartsWith(s, p) == Len(s) >= Len(p) /\ SubSeq(s, 1, Len(p)) = p

\* index of the first occurrence of sep in s at or after position i, 0 when none
RECURSIVE IndexOf(_, _, _)
IndexOf(s, sep, i) ==
    IF i + Len(sep) - 1 > Len(s) THEN 0
    ELSE IF SubSeq(s, i, i + Len(sep) - 1) = sep THEN i
    ELSE IndexOf(s, sep, i + 1)

\* String.prototype.split(sep), sep non-empty
RECURSIVE Split(_, _)
Split(s, sep) ==
    LET i == IndexOf(s, sep, 1) IN
    IF i = 0 THEN <<s>>
    ELSE <<SubSeq(s, 1, i - 1)>> \o Split(SubSeq(s, i + Len(sep), Len(s)), sep)

\* arr[i] of JavaScript, 0-based
At(arr, i) == IF i + 1 <= Len(arr) THEN arr[i + 1] ELSE Undefined

Https == <<"h", "t", "t", "p", "s", ":", "/", "/">>
PuterSite == <<".", "p", "u", "t", "e", "r", ".", "s", "i", "t", "e">>

\* `https://${x}.puter.site`
SiteUrl(x) == Https \o x \o PuterSite

-----------------------------------------------------------------------------
(* Remote calls and their answers *)

Call(api, args, resp) == [api |-> api, args |-> args, resp |-> resp]

Msg(m, v) == [m |-> m, v |-> v]

Throw == [k |-> "throw"]
NullBody == [k |-> "null"]

Apis(cs) == [i \in 1..Len(cs) |-> cs[i].api]

Ready == pc = "idle"

\* a command starts: the log of the previous invocation is dropped
Begin(c, a, newpc, newloc, newcalls, msgs, newret) ==
    /\ Ready
    /\ cmd' = c
    /\ argv' = a
    /\ pc' = newpc
    /\ loc' = newloc
    /\ calls' = newcalls
    /\ out' = msgs
    /\ ret' = newret

\* a running command issues its next call and goes on
Step(newpc, newloc, call, msgs, newret) ==
    /\ pc' = newpc
    /\ loc' = newloc
    /\ calls' = Append(calls, call)
    /\ out' = out \o msgs
    /\ ret' = newret
    /\ UNCHANGED <<cmd, argv>>

NoLoc == [none |-> TRUE]

-----------------------------------------------------------------------------
(* listApps *)

AppA == <<"a">>
AppB == <<"b">>
AppNames == {AppA, AppB}

\* an app as puter-apps select returns it
AppRow(name, url, hasStats) ==
    [title |-> name, name |-> name, index_url |-> url, stats |-> hasStats]

AppListings ==
    { <<>>,
      <<AppRow(AppA, SiteUrl(AppA), TRUE)>>,
      <<AppRow(AppA, SiteUrl(AppA), TRUE), AppRow(AppB, Undefined, TRUE)>>,
      <<AppRow(AppA, SiteUrl(AppA), TRUE), AppRow(AppB, Undefined, FALSE)>> }

ListAppsAnswers ==
    {Throw, NullBody, [k |-> "obj", hasResult |-> FALSE]}
        \cup {[k |-> "obj", hasResult |-> TRUE, result |-> r] : r \in AppListings}

\* the Subdomain column of the table
SubdomainColumn(app) ==
    IF Truthy(app.index_url)
    THEN At(Split(At(Split(app.index_url, <<".">>), 0), <<"/", "/">>), 1)
    ELSE <<"<NO_URL>">>

\* data && data['result']
HasResult(data) == data.k = "obj" /\ data.hasResult

\* reading app['stats']['open_count'] of some row throws
RowThrows(rows) == \E i \in 1..Len(rows) : ~rows[i].stats

ListAppsRows(rows) == [i \in 1..Len(rows) |-> Msg("row", SubdomainColumn(rows[i]))]

listApps(statsPeriod, iconSize, data) ==
    LET call == Call("puter-apps.select",
                     [icon_size |-> iconSize, stats_period |-> statsPeriod], data)
        msgs ==
            IF data.k = "throw" THEN <<Msg("Failed to list apps", <<>>)>>
            ELSE IF ~HasResult(data) THEN <<Msg("Unable to list your apps", <<>>)>>
            ELSE IF RowThrows(data.result) THEN <<Msg("Failed to list apps", <<>>)>>
            ELSE ListAppsRows(data.result) \o <<Msg("You have in total", Len(data.result))>>
    IN  /\ Begin("listApps", <<statsPeriod>>, "done", NoLoc, <<call>>,
                 <<Msg("Listing of apps", statsPeriod)>> \o msgs, "undefined")
        /\ UNCHANGED <<ds, subdomains>>

ListApps ==
    \E statsPeriod \in {"all", "7d"}, iconSize \in {16, 64}, data \in ListAppsAnswers :
        listApps(statsPeriod, iconSize, data)

-----------------------------------------------------------------------------
(* deleteApp *)

AppReadAnswers ==
    {Throw, NullBody}
        \cup {[k |-> "obj", success |-> s, hasResult |-> FALSE] : s \in BOOLEAN}
        \cup {[k |-> "obj", success |-> s, hasResult |-> TRUE,
               result |-> AppRow(AppA, SiteUrl(AppA), TRUE)] : s \in BOOLEAN}

\* answers of the calls whose result is not read: success or not
PlainAnswers ==
    {Throw, NullBody, [k |-> "obj", success |-> TRUE], [k |-> "obj", success |-> FALSE]}

\* the read check with && in place of ||
AppNotFound_and(readData) == ~readData.success /\ ~readData.hasResult

\* !readData.success || !readData.result
AppNotFound(readData) == ~readData.success \/ ~readData.hasResult

deleteApp(name, readData) ==
    LET call == Call("puter-apps.read", [name |-> name], readData)
        hello == <<Msg("Checking app", name)>>
        caught == <<Msg("Failed to delete app", name)>>
    IN  /\ IF readData.k \in {"throw", "null"}
           THEN Begin("deleteApp", <<name>>, "done", NoLoc, <<call>>, hello \o caught, "undefined")
           ELSE IF AppNotFound(readData)
           THEN Begin("deleteApp", <<name>>, "done", NoLoc, <<call>>,
                      hello \o <<Msg("not found", name)>>, "false")
           ELSE IF ~readData.hasResult
           THEN Begin("deleteApp", <<name>>, "done", NoLoc, <<call>>, hello \o caught, "undefined")
           ELSE Begin("deleteApp", <<name>>, "deleteApp_delete", [name |-> name], <<call>>,
                      hello \o <<Msg("App Details", readData.result.name),
                                 Msg("Deleting app", name)>>, "running")
        /\ UNCHANGED <<ds, subdomains>>

DeleteApp ==
    \E name \in AppNames, readData \in AppReadAnswers : deleteApp(name, readData)

deleteApp_delete(deleteData) ==
    LET call == Call("puter-apps.delete", [name |-> loc.name], deleteData)
        msgs ==
            IF deleteData.k \in {"throw", "null"} THEN <<Msg("Failed to delete app", loc.name)>>
            ELSE IF deleteData.success THEN <<Msg("deleted successfully", loc.name)>>
            ELSE <<Msg("Failed to delete app, P.S.", loc.name)>>
    IN  /\ pc = "deleteApp_delete"
        /\ Step("done", NoLoc, call, msgs, "undefined")
        /\ UNCHANGED <<ds, subdomains>>

DeleteApp_delete == \E deleteData \in PlainAnswers : deleteApp_delete(deleteData)

-----------------------------------------------------------------------------
(* createApp *)

Me == <<"m", "e">>
AppUid == <<"p", "1">>
DirUid == <<"d", "1">>
UUIDs == {<<"c", "1", "-", "d">>, <<"c", "2", "-", "d">>}
AppData == <<"/", "A", "p", "p", "D", "a", "t", "a", "/">>
AppDash == <<"a", "p", "p", "-">>
ComingSoon == Https \o <<"c", "o", "m", "i", "n", "g", "-", "s", "o", "o", "n">>

\* dedupe_name: the server answers with the requested name or a suffixed one
CanonicalNames(name) == {name, name \o <<"-", "1">>}

AppCreateAnswers(name) ==
    {Throw, NullBody,
     [k |-> "obj", success |-> FALSE, hasResult |-> FALSE],
     [k |-> "obj", success |-> TRUE, hasResult |-> FALSE]}
        \cup {[k |-> "obj", success |-> TRUE, hasResult |-> TRUE,
               result |-> [uid |-> AppUid, name |-> n, owner |-> [username |-> Me]]] :
                n \in CanonicalNames(name)}

MkdirAnswers(uid) ==
    {Throw, NullBody,
     [k |-> "obj", uid |-> Undefined, name |-> Undefined],
     [k |-> "obj", uid |-> DirUid, name |-> AppDash \o uid]}

\* !createAppData || !createAppData.success
CreateAppFailed(data) == data.k = "null" \/ ~data.success

\* the directory check with its early return lost
CreateDirFailed_lost(data) == FALSE

\* !createDirData || !createDirData.uid
CreateDirFailed(data) == data.k = "null" \/ ~Truthy(data.uid)

\* !createSubdomainData || !createSubdomainData.success
CreateSubdomainFailed(data) == data.k = "null" \/ ~data.success

\* !updateAppData || !updateAppData.success
UpdateAppFailed(data) == data.k = "null" \/ ~data.success

\* `${name}-${uid.split('-')[0]}`
SubdomainName(name, uid) == name \o <<"-">> \o At(Split(uid, <<"-">>), 0)

\* `/${username}/AppData/${appUid}`
AppDir(username, appUid) == <<"/">> \o username \o AppData \o appUid

\* the index_url the update call writes
UpdatedIndexUrl(appName, subdomainName) == SiteUrl(appName)

CreateAppCaught(name) == <<Msg("Failed to create app, Error", name)>>

createApp(name, description, url, data) ==
    LET call == Call("puter-apps.create",
                     [name |-> name, index_url |-> url, title |-> name,
                      description |-> description, dedupe_name |-> TRUE], data)
        hello == <<Msg("Creating app", name)>>
    IN  /\ IF data.k = "throw"
           THEN Begin("createApp", <<name>>, "done", NoLoc, <<call>>,
                      hello \o CreateAppCaught(name), "undefined")
           ELSE IF CreateAppFailed(data)
           THEN Begin("createApp", <<name>>, "done", NoLoc, <<call>>,
                      hello \o <<Msg("Failed to create app", name)>>, "undefined")
           ELSE IF data.k = "null" \/ ~data.hasResult
           THEN Begin("createApp", <<name>>, "done", NoLoc, <<call>>,
                      hello \o CreateAppCaught(name), "undefined")
           ELSE Begin("createApp", <<name>>, "createApp_mkdir",
                      [name |-> name, appUid |-> data.result.uid,
                       appName |-> data.result.name,
                       username |-> data.result.owner.username],
                      <<call>>,
                      hello \o <<Msg("created successfully", name),
                                 Msg("AppName", data.result.name)>>, "running")
        /\ UNCHANGED <<ds, subdomains>>

CreateApp ==
    \E name \in AppNames : \E data \in AppCreateAnswers(name) :
        createApp(name, <<>>, ComingSoon, data)

createApp_mkdir(uid, data) ==
    LET call == Call("mkdir",
                     [parent |-> AppDir(loc.username, loc.appUid), path |-> AppDash \o uid],
                     data)
        hello == <<Msg("Creating directory", uid)>>
    IN  /\ pc = "createApp_mkdir"
        /\ IF data.k = "throw"
           THEN Step("done", NoLoc, call, hello \o CreateAppCaught(loc.name), "undefined")
           ELSE IF CreateDirFailed(data)
           THEN Step("done", NoLoc, call,
                     hello \o <<Msg("Failed to create directory", loc.name)>>, "undefined")
           ELSE IF data.k = "null"
           THEN Step("done", NoLoc, call, hello \o CreateAppCaught(loc.name), "undefined")
           ELSE Step("createApp_subdomain",
                     [name |-> loc.name, appUid |-> loc.appUid, appName |-> loc.appName,
                      username |-> loc.username,
                      subdomainName |-> SubdomainName(loc.name, uid),
                      dirName |-> data.name],
                     call,
                     hello \o <<Msg("Directory created", data.uid),
                                Msg("Creating subdomain", SubdomainName(loc.name, uid))>>,
                     "running")
        /\ UNCHANGED <<ds, subdomains>>

CreateApp_mkdir ==
    \E uid \in UUIDs : \E data \in MkdirAnswers(uid) : createApp_mkdir(uid, data)

createApp_subdomain(data) ==
    LET call == Call("puter-subdomains.create",
                     [subdomain |-> loc.subdomainName,
                      root_dir |-> AppDir(loc.username, loc.appUid)
                                       \o <<"/">> \o loc.dirName],
                     data)
    IN  /\ pc = "createApp_subdomain"
        /\ IF data.k = "throw"
           THEN Step("done", NoLoc, call, CreateAppCaught(loc.name), "undefined")
           ELSE IF CreateSubdomainFailed(data)
           THEN Step("done", NoLoc, call,
                     <<Msg("Failed to create subdomain", loc.subdomainName)>>, "undefined")
           ELSE Step("createApp_update", loc, call,
                     <<Msg("Subdomain created", loc.subdomainName),
                       Msg("Set as a subdomain for app", loc.appName)>>, "running")
        /\ UNCHANGED <<ds, subdomains>>

CreateApp_subdomain == \E data \in PlainAnswers : createApp_subdomain(data)

createApp_update(data) ==
    LET call == Call("puter-apps.update",
                     [name |-> loc.appName,
                      index_url |-> UpdatedIndexUrl(loc.appName, loc.subdomainName),
                      title |-> loc.name],
                     data)
    IN  /\ pc = "createApp_update"
        /\ IF data.k = "throw"
           THEN Step("done", NoLoc, call, CreateAppCaught(loc.name), "undefined")
           ELSE IF UpdateAppFailed(data)
           THEN Step("done", NoLoc, call,
                     <<Msg("Failed to update app", loc.name)>>, "undefined")
           ELSE Step("done", NoLoc, call,
                     <<Msg("App deployed successfully at", SiteUrl(loc.subdomainName))>>,
                     "undefined")
        /\ UNCHANGED <<ds, subdomains>>

CreateApp_update == \E data \in PlainAnswers : createApp_update(data)

-----------------------------------------------------------------------------
(* The subdomain bindings of the remote side *)

Other == <<"o">>
Cwd == <<"/", "w">>
Elsewhere == <<"/", "e">>
GenNames == {<<"g">>}
DirX == <<"x">>

\* auth.js
getCurrentUserName == Me
getCurrentDirectory == Cwd

\* commons.js: a relative path resolved against a directory
resolvePath(dir, rel) == dir \o <<"/">> \o rel

\* the uid the remote side gives the binding of a name
UidOf(name) ==
    CASE name = <<"a">> -> <<"1", "2">>
      [] name = <<"b">> -> <<"3", "4">>
      [] name = <<"g">> -> <<"5", "6">>
      [] OTHER -> <<"7", "8">>

Binding(name, owner, path) ==
    [uid |-> UidOf(name), subdomain |-> name, owner |-> owner, root_dir |-> path]

\* the bindings the remote side may hold when the program starts
InitialBindings ==
    { {},
      {Binding(AppA, Other, Elsewhere)},
      {Binding(AppA, Me, Cwd), Binding(AppB, Me, resolvePath(Cwd, DirX))},
      {Binding(AppA, Me, Elsewhere), Binding(AppB, Me, Null)} }

RECURSIVE SeqOf(_)
SeqOf(S) == IF S = {} THEN <<>> ELSE LET x == CHOOSE y \in S : TRUE IN <<x>> \o SeqOf(S \ {x})

ListingFaults == {"none", "throw", "notok", "null", "fail", "nonarray"}

\* getSubdomains: the parsed body, or the exception it raises
getSubdomains(fault) ==
    CASE fault = "throw" -> Throw
      [] fault = "notok" -> Throw
      [] fault = "null" -> NullBody
      [] fault = "fail" -> [k |-> "obj", success |-> FALSE, isArray |-> FALSE, result |-> <<>>]
      [] fault = "nonarray" -> [k |-> "obj", success |-> TRUE, isArray |-> FALSE, result |-> <<>>]
      [] OTHER -> [k |-> "obj", success |-> TRUE, isArray |-> TRUE,
                   result |-> SeqOf(subdomains)]

\* !data.success || !Array.isArray(data.result), or reading data.success of null throws
ListingFailed(data) == data.k \in {"throw", "null"} \/ ~data.success \/ ~data.isArray

\* domain?.root_dir?.path.split('/').pop()
DirectoryColumn(domain) ==
    IF domain.root_dir = Null THEN Undefined
    ELSE LET parts == Split(domain.root_dir, <<"/">>) IN parts[Len(parts)]

\* the catch block without its throw
listSubdomainsCaught_swallowed == "undefined"

\* the catch block of listSubdomains ends in throw error
listSubdomainsCaught == "throw"

listSubdomains(args, fault) ==
    LET data == getSubdomains(fault)
        call == Call("puter-subdomains.select", args, data)
        rows == IF ListingFailed(data) THEN <<>>
                ELSE [i \in 1..Len(data.result) |->
                        Msg("row", DirectoryColumn(data.result[i]))]
    IN  /\ IF ListingFailed(data)
           THEN Begin("listSubdomains", <<>>, "done", NoLoc, <<call>>,
                      <<Msg("Error listing subdomains", <<>>)>>, listSubdomainsCaught)
           ELSE IF Len(data.result) = 0
           THEN Begin("listSubdomains", <<>>, "done", NoLoc, <<call>>,
                      <<Msg("No subdomains found", <<>>)>>, "undefined")
           ELSE Begin("listSubdomains", <<>>, "done", NoLoc, <<call>>,
                      rows \o <<Msg("Total subdomains", Len(data.result))>>, "undefined")
        /\ UNCHANGED <<ds, subdomains>>

ListSubdomains == \E fault \in ListingFaults : listSubdomains([none |-> TRUE], fault)

-----------------------------------------------------------------------------
(* deleteSubdomain *)

Str(s) == [t |-> "str", v |-> s]
Arr(a) == [t |-> "arr", v |-> a]

\* the values for (const x of args) visits: the elements of an array, the
\* characters of a string
ForOf(args) ==
    IF args.t = "str" THEN [i \in 1..Len(args.v) |-> <<args.v[i]>>] ELSE args.v

DeleteFaults == {"none", "error", "throw", "null"}

\* the bindings a puter-subdomains delete of id addresses
Addressed(id) == {b \in subdomains : b.uid = id \/ b.subdomain = id}

\* the answer of puter-subdomains delete
DeleteAnswer(id, fault) ==
    CASE fault = "throw" -> Throw
      [] fault = "null" -> NullBody
      [] fault = "error" -> [k |-> "obj", success |-> FALSE, code |-> "other"]
      [] OTHER -> IF Addressed(id) = {}
                  THEN [k |-> "obj", success |-> FALSE, code |-> "entity_not_found"]
                  ELSE [k |-> "obj", success |-> TRUE, code |-> "none"]

\* the bindings after that delete
AfterDelete(id, fault) ==
    IF fault = "none" THEN subdomains \ Addressed(id) ELSE subdomains

\* what a command does next: its position, locals, deleteSubdomain frame,
\* the messages it prints on the way and its return value
Outcome(newpc, newloc, newds, msgs, newret) ==
    [pc |-> newpc, loc |-> newloc, ds |-> newds, msgs |-> msgs, ret |-> newret]

NoDs == [ids |-> <<>>, i |-> 0, caller |-> "none"]

\* deleteSite after the try block of one uuid: the next uuid, or the return
deleteSiteNext(l, msgs) ==
    IF l.k < Len(l.args)
    THEN Outcome("deleteSite", [args |-> l.args, k |-> l.k + 1], NoDs, msgs, "running")
    ELSE Outcome("done", NoLoc, NoDs, msgs, "undefined")

\* the caller of deleteSubdomain goes on with its result
deleteSubdomainReturns(caller, result, l) ==
    CASE caller = "deleteSite" ->
            deleteSiteNext(l,
                IF result /\ l.data = "null" THEN <<Msg("Error deleting site", <<>>)>>
                ELSE IF result /\ l.data = "empty"
                THEN <<Msg("should be deleted", l.args[l.k]),
                       Msg("may already be deleted", l.args[l.k])>>
                ELSE <<Msg("may already be deleted", l.args[l.k])>>)
      [] caller = "deploySite" ->
            IF result
            THEN Outcome("done", NoLoc, NoDs,
                         <<Msg("free again, please try again", <<>>)>>, "undefined")
            ELSE Outcome("deploySite_host", l, NoDs,
                         <<Msg("Could not release this subdomain", <<>>),
                           Msg("Hosting app under subdomain", l.subdomain)>>, "running")
      [] OTHER ->
            Outcome("done", NoLoc, NoDs, <<>>, IF result THEN "true" ELSE "false")

\* deleteSubdomain(args) up to its first delete call
deleteSubdomainEnter(caller, args, l) ==
    IF Len(args.v) < 1
    THEN LET o == deleteSubdomainReturns(caller, FALSE, l) IN
         Outcome(o.pc, o.loc, o.ds, <<Msg("Usage: domain:delete", <<>>)>> \o o.msgs, o.ret)
    ELSE Outcome("deleteSubdomain", l, [ids |-> ForOf(args), i |-> 1, caller |-> caller],
                 <<>>, "running")

\* the failure check lost: the loop goes on after a refused delete
DeleteFailed_lost(data) == FALSE

\* if (!data.success)
DeleteFailed(data) == ~data.success

\* return true inside the loop: no id after the first
MoreIds_returnInLoop(i, n) == FALSE

\* the loop goes on to a next id
MoreIds(i, n) == i < n

\* one pass of the loop of deleteSubdomain
deleteSubdomain_call(fault) ==
    LET id == ds.ids[ds.i]
        data == DeleteAnswer(id, fault)
        call == Call("puter-subdomains.delete", [subdomain |-> id], data)
        caught == data.k \in {"throw", "null"}
        failed == ~caught /\ DeleteFailed(data)
        msgs == IF caught THEN <<Msg("Error deleting subdomain", <<>>)>>
                ELSE IF failed
                THEN IF data.code = "entity_not_found"
                     THEN <<Msg("Subdomain ID not found", id)>>
                     ELSE <<Msg("Failed to delete subdomain", <<>>)>>
                ELSE <<Msg("Subdomain deleted successfully", <<>>)>>
        o == IF failed THEN deleteSubdomainReturns(ds.caller, FALSE, loc)
             ELSE IF MoreIds(ds.i, Len(ds.ids))
             THEN Outcome("deleteSubdomain", loc, [ds EXCEPT !.i = ds.i + 1], <<>>, "running")
             ELSE deleteSubdomainReturns(ds.caller, TRUE, loc)
    IN  /\ pc = "deleteSubdomain"
        /\ Step(o.pc, o.loc, call, msgs \o o.msgs, o.ret)
        /\ ds' = o.ds
        /\ subdomains' = AfterDelete(id, fault)

DeleteSubdomain_call == \E fault \in DeleteFaults : deleteSubdomain_call(fault)

\* the ids of the command line
Ids == {UidOf(AppA), UidOf(AppB), AppA}

RECURSIVE SeqsUpTo(_, _)
SeqsUpTo(S, n) ==
    IF n = 0 THEN {<<>>}
    ELSE LET shorter == SeqsUpTo(S, n - 1) IN
         shorter \cup {Append(q, x) : q \in shorter, x \in S}

\* deleteSubdomain invoked with the ids of the command line
deleteSubdomain(args) ==
    LET o == deleteSubdomainEnter("cli", Arr(args), NoLoc) IN
    /\ Begin("deleteSubdomain", args, o.pc, o.loc, <<>>, o.msgs, o.ret)
    /\ ds' = o.ds
    /\ UNCHANGED subdomains

DeleteSubdomain == \E args \in SeqsUpTo(Ids, MaxIds) : deleteSubdomain(args)

-----------------------------------------------------------------------------
(* deleteSite *)

SiteIds == {UidOf(AppA), UidOf(AppB)}

DeleteSiteAnswers == {"throw", "notok", "null", "empty", "nonempty"}

\* fetch rejects, or !response.ok
DeleteSiteThrows(answer) == answer \in {"throw", "notok"}

deleteSite(args) ==
    /\ IF Len(args) < 1
       THEN Begin("deleteSite", args, "done", NoLoc, <<>>,
                  <<Msg("Usage: site:delete", <<>>)>>, "undefined")
       ELSE Begin("deleteSite", args, "deleteSite", [args |-> args, k |-> 1], <<>>, <<>>,
                  "running")
    /\ UNCHANGED <<ds, subdomains>>

DeleteSite == \E args \in SeqsUpTo(SiteIds, MaxSites) : deleteSite(args)

\* one pass of the loop of deleteSite, up to the call of deleteSubdomain
deleteSite_call(answer) ==
    LET uuid == loc.args[loc.k]
        call == Call("delete-site", [site_uuid |-> uuid], [k |-> answer])
        o == IF DeleteSiteThrows(answer)
             THEN deleteSiteNext(loc, <<Msg("Error deleting site", <<>>)>>)
             ELSE deleteSubdomainEnter("deleteSite", Str(uuid),
                                       [args |-> loc.args, k |-> loc.k, data |-> answer])
    IN  /\ pc = "deleteSite"
        /\ Step(o.pc, o.loc, call, o.msgs, o.ret)
        /\ ds' = o.ds
        /\ subdomains' = IF answer \in {"throw", "notok"} THEN subdomains
                         ELSE {b \in subdomains : b.uid # uuid}

DeleteSite_call == \E answer \in DeleteSiteAnswers : deleteSite_call(answer)

-----------------------------------------------------------------------------
(* deploySite *)

SubdomainFlag == <<"-", "-", "s", "u", "b", "d", "o", "m", "a", "i", "n", "=">>

DeployArgs ==
    {<<>>, <<AppA, SubdomainFlag>>, <<AppA, SubdomainFlag \o AppB \o <<"=">> \o AppA>>}
        \cup {<<n>> : n \in AppNames}
        \cup {<<n, DirX>> : n \in AppNames}
        \cup {<<n, SubdomainFlag \o AppB>> : n \in AppNames}
        \cup {<<n, DirX, SubdomainFlag \o AppB>> : n \in AppNames}

\* args.find(arg => arg.startsWith('--subdomain='))?.split('=')[1]
subdomainOption(args) ==
    LET hits == {i \in 1..Len(args) : StartsWith(args[i], SubdomainFlag)} IN
    IF hits = {} THEN Undefined
    ELSE At(Split(args[CHOOSE i \in hits : \A j \in hits : i <= j], <<"=">>), 1)

\* args[1] ? (args[1].startsWith('--') ? cwd : resolvePath(cwd, args[1])) : cwd
remoteDirOf(args) ==
    IF Truthy(At(args, 1))
    THEN IF StartsWith(At(args, 1), <<"-", "-">>) THEN getCurrentDirectory
         ELSE resolvePath(getCurrentDirectory, At(args, 1))
    ELSE getCurrentDirectory

\* Step 1: the subdomain asked for
candidateOf(args) ==
    IF Truthy(subdomainOption(args)) THEN subdomainOption(args) ELSE args[1]

\* subdomains.find(sd => sd.subdomain === subdomain): the positions that match
Matches(result, subdomain) == {i \in 1..Len(result) : result[i].subdomain = subdomain}

\* subdomainObj.owner['username'] === getCurrentUserName()
IsMine(subdomainObj) == subdomainObj.owner = getCurrentUserName

\* root_dir, an object, compared with the path: never equal
SameDirectory_object(subdomainObj, remoteDir) == FALSE

\* subdomainObj.root_dir?.path === remoteDir
SameDirectory(subdomainObj, remoteDir) == subdomainObj.root_dir = remoteDir

\* the subdomain hostDirectory is given when the listing has no binding of the candidate
WhenNotListed(candidate, generated) == generated

\* the subdomain hostDirectory is given when the binding of the candidate is another user's
WhenOthers(candidate, generated) == candidate

DeployCaught == <<Msg("Failed to deploy app", <<>>)>>

\* Step 2 of deploySite, on the listing: up to the next call or to the return
deploySiteCheck(args, result, generated) ==
    LET candidate == candidateOf(args)
        remoteDir == remoteDirOf(args)
        hits == Matches(result, candidate)
        l(sd) == [appName |-> args[1], subdomain |-> sd, remoteDir |-> remoteDir]
    IN  IF hits # {}
        THEN LET subdomainObj == result[CHOOSE i \in hits : \A j \in hits : i <= j]
                 inUse == <<Msg("already in use and owned by", subdomainObj.owner)>>
             IN  IF IsMine(subdomainObj)
                 THEN IF SameDirectory(subdomainObj, remoteDir)
                      THEN Outcome("done", NoLoc, NoDs,
                                   inUse \o <<Msg("It's yours, and linked to", subdomainObj.root_dir),
                                              Msg("already deployed at", SiteUrl(candidate))>>,
                                   "undefined")
                      ELSE LET o == deleteSubdomainEnter("deploySite", Str(subdomainObj.uid),
                                                         l(candidate))
                           IN  Outcome(o.pc, o.loc, o.ds,
                                       inUse \o <<Msg("It's yours, and linked to", subdomainObj.root_dir),
                                                  Msg("linked to different directory", subdomainObj.root_dir)>>
                                             \o o.msgs,
                                       o.ret)
                 ELSE Outcome("deploySite_host", l(WhenOthers(candidate, generated)), NoDs,
                              inUse \o <<Msg("Hosting app under subdomain",
                                             WhenOthers(candidate, generated))>>,
                              "running")
        ELSE Outcome("deploySite_host", l(WhenNotListed(candidate, generated)), NoDs,
                     <<Msg("already taken, generate a new random one", candidate),
                       Msg("New generated subdomain", WhenNotListed(candidate, generated)),
                       Msg("Hosting app under subdomain", WhenNotListed(candidate, generated))>>,
                     "running")

deploySite(args, fault, generated) ==
    LET data == getSubdomains(fault)
        call == Call("puter-subdomains.select", [none |-> TRUE], data)
        hello == <<Msg("Deploying app", remoteDirOf(args))>>
        o == deploySiteCheck(args, data.result, generated)
    IN  /\ IF Len(args) < 1
           THEN /\ Begin("deploySite", args, "done", NoLoc, <<>>,
                         <<Msg("Usage: deploy", <<>>)>>, "undefined")
                /\ ds' = NoDs
           ELSE IF ListingFailed(data)
           THEN /\ Begin("deploySite", args, "done", NoLoc, <<call>>, hello \o DeployCaught,
                         "undefined")
                /\ ds' = NoDs
           ELSE /\ Begin("deploySite", args, o.pc, o.loc, <<call>>, hello \o o.msgs, o.ret)
                /\ ds' = o.ds
        /\ UNCHANGED subdomains

DeploySite ==
    \E args \in DeployArgs, fault \in ListingFaults, generated \in GenNames :
        deploySite(args, fault, generated)

HostFaults == {"none", "throw", "notok", "null"}

\* the answer of puter-subdomains create
CreateAnswer(subdomain, fault) ==
    CASE fault \in {"throw", "notok"} -> Throw
      [] fault = "null" -> NullBody
      [] OTHER -> IF \E b \in subdomains : b.subdomain = subdomain
                  THEN [k |-> "obj", success |-> FALSE, hasResult |-> FALSE]
                  ELSE [k |-> "obj", success |-> TRUE, hasResult |-> TRUE,
                        result |-> [subdomain |-> subdomain]]

\* the bindings after that create
AfterCreate(subdomain, remoteDir, fault) ==
    IF fault = "none" /\ ~\E b \in subdomains : b.subdomain = subdomain
    THEN subdomains \cup {Binding(subdomain, Me, remoteDir)}
    ELSE subdomains

\* hostDirectory raises: fetch rejects, !response.ok, or data.result of null is read
hostDirectoryThrows(data) == data.k \in {"throw", "null"}

\* Step 3 of deploySite: hostDirectory(subdomain, remoteDir) and the report
deploySite_host(fault) ==
    LET data == CreateAnswer(loc.subdomain, fault)
        call == Call("puter-subdomains.create",
                     [subdomain |-> loc.subdomain, root_dir |-> loc.remoteDir], data)
        msgs == IF hostDirectoryThrows(data) THEN DeployCaught
                ELSE IF ~data.hasResult
                THEN <<Msg("deployed successfully", loc.appName)>> \o DeployCaught
                ELSE <<Msg("deployed successfully", loc.appName),
                       Msg("Website hosted at", SiteUrl(data.result.subdomain))>>
    IN  /\ pc = "deploySite_host"
        /\ Step("done", NoLoc, call, msgs, "undefined")
        /\ subdomains' = AfterCreate(loc.subdomain, loc.remoteDir, fault)
        /\ UNCHANGED ds

DeploySite_host == \E fault \in HostFaults : deploySite_host(fault)

-----------------------------------------------------------------------------
Init ==
    /\ pc = "idle"
    /\ cmd = "none"
    /\ argv = <<>>
    /\ loc = NoLoc
    /\ ds = NoDs
    /\ calls = <<>>
    /\ out = <<>>
    /\ ret = "undefined"
    /\ subdomains \in InitialBindings

\* the command returned: the dispatcher waits for the next command line
Prompt ==
    /\ pc = "done"
    /\ pc' = "idle"
    /\ cmd' = "none"
    /\ argv' = <<>>
    /\ loc' = NoLoc
    /\ ds' = NoDs
    /\ calls' = <<>>
    /\ out' = <<>>
    /\ ret' = "undefined"
    /\ UNCHANGED subdomains

Next ==
    \/ Prompt
    \/ ListApps
    \/ ListSubdomains
    \/ DeleteSubdomain
    \/ DeleteSubdomain_call
    \/ DeleteSite
    \/ DeleteSite_call
    \/ DeploySite
    \/ DeploySite_host
    \/ CreateApp
    \/ CreateApp_mkdir
    \/ CreateApp_subdomain
    \/ CreateApp_update
    \/ DeleteApp
    \/ DeleteApp_delete

Spec == Init /\ [][Next]_vars

-----------------------------------------------------------------------------
(* Properties *)

Printed(m) == \E i \in 1..Len(out) : out[i].m = m
PrintedWith(m, v) == \E i \in 1..Len(out) : out[i].m = m /\ out[i].v = v

CallsOf(api) == {i \in 1..Len(calls) : calls[i].api = api}

\* the answer is a refusal: a body with success false
Refused(resp) == resp.k = "obj" /\ ~resp.success

\* the answer is a transport failure or no body at all
Broken(resp) == resp.k \in {"throw", "null", "notok"}

\* a deploySite invocation whose listing succeeded
DeployListed ==
    /\ cmd = "deploySite"
    /\ Len(argv) >= 1
    /\ Len(calls) >= 1
    /\ ~ListingFailed(calls[1].resp)

\* the bindings of the candidate name in the listing
ListedCandidate ==
    {calls[1].resp.result[i] : i \in Matches(calls[1].resp.result, candidateOf(argv))}

\* C1: when the listing succeeds and holds no binding of the candidate name,
\* deploySite issues exactly one puter-subdomains create call, for the
\* candidate name itself and the resolved directory.
C1_FreeCandidateIsHosted ==
    (DeployListed /\ ListedCandidate = {} /\ pc = "done")
        => /\ Cardinality(CallsOf("puter-subdomains.create")) = 1
           /\ \A i \in CallsOf("puter-subdomains.create") :
                /\ calls[i].args.subdomain = candidateOf(argv)
                /\ calls[i].args.root_dir = remoteDirOf(argv)

\* C2: deleteSubdomain given a sequence of ids issues its delete calls in the
\* order of the sequence, one id per call, goes on after a deletion that
\* succeeded, and on the first refused delete returns false without a
\* delete call for any later id.
C2_DeleteInOrderUntilRefused ==
    cmd = "deleteSubdomain"
        => /\ Len(calls) <= Len(argv)
           /\ \A i \in 1..Len(calls) :
                /\ calls[i].api = "puter-subdomains.delete"
                /\ calls[i].args.subdomain = argv[i]
                /\ Refused(calls[i].resp)
                     => i = Len(calls) /\ pc = "done" /\ ret = "false"
                /\ (calls[i].resp.k = "obj" /\ calls[i].resp.success /\ i < Len(argv))
                     => pc # "done" \/ i < Len(calls)

C2_Witness ==
    /\ cmd = "deleteSubdomain"
    /\ pc = "done"
    /\ Len(argv) = 2
    /\ Len(calls) = 2
    /\ calls[1].resp.k = "obj" /\ calls[1].resp.success
    /\ Refused(calls[2].resp)
    /\ ret = "false"

\* the answer lets the workflow of createApp go on
StepSucceeded(c) ==
    /\ c.resp.k = "obj"
    /\ IF c.api = "mkdir" THEN Truthy(c.resp.uid) ELSE c.resp.success

CreateAppOrder ==
    <<"puter-apps.create", "mkdir", "puter-subdomains.create", "puter-apps.update">>

\* C3: createApp issues app create, mkdir, subdomain create, app update in
\* that order, each only after the previous one answered with success; after
\* a failed step no later call, and no compensating call, is issued.
C3_CreateAppShortCircuits ==
    cmd = "createApp"
        => /\ Len(calls) <= Len(CreateAppOrder)
           /\ \A i \in 1..Len(calls) :
                /\ calls[i].api = CreateAppOrder[i]
                /\ i < Len(calls) => StepSucceeded(calls[i])
           /\ (Len(calls) >= 1 /\ ~StepSucceeded(calls[Len(calls)]))
                => pc = "done" /\ ret = "undefined"

C3_Witness ==
    /\ cmd = "createApp"
    /\ pc = "done"
    /\ Len(calls) = 2
    /\ StepSucceeded(calls[1])
    /\ calls[2].resp.k = "obj" /\ ~StepSucceeded(calls[2])
    /\ Printed("Failed to create directory")

\* C4: when the read of deleteApp answers success false or without a result,
\* deleteApp reports the app as not found, returns false and issues no delete
\* call; a delete call follows only a read that answered success with a result.
C4_NotFoundNoDelete ==
    (cmd = "deleteApp" /\ Len(calls) >= 1)
        => /\ calls[1].api = "puter-apps.read"
           /\ (calls[1].resp.k = "obj" /\ (~calls[1].resp.success \/ ~calls[1].resp.hasResult))
                => /\ pc = "done"
                   /\ ret = "false"
                   /\ PrintedWith("not found", argv[1])
                   /\ Len(calls) = 1
           /\ \A i \in CallsOf("puter-apps.delete") :
                /\ i = 2
                /\ calls[1].resp.k = "obj"
                /\ calls[1].resp.success
                /\ calls[1].resp.hasResult

C4_Witness ==
    /\ cmd = "deleteApp"
    /\ pc = "done"
    /\ Len(calls) = 1
    /\ calls[1].resp.k = "obj" /\ ~calls[1].resp.success
    /\ ret = "false"
    /\ Printed("not found")

\* the candidate is bound, the current user's, and points at the resolved directory
AlreadyDeployedCase ==
    /\ DeployListed
    /\ \E b \in ListedCandidate :
            b.owner = getCurrentUserName /\ b.root_dir = remoteDirOf(argv)

\* C5: when the candidate is bound, owned by the current user and points at
\* the resolved directory, deploySite issues the listing and no other call,
\* leaves the bindings as listed, reports the existing URL and returns; the
\* binding is still there, so a repeated deploy meets the same case.
C5_AlreadyDeployedNoOp ==
    AlreadyDeployedCase
        => /\ pc = "done"
           /\ ret = "undefined"
           /\ Apis(calls) = <<"puter-subdomains.select">>
           /\ subdomains = {calls[1].resp.result[i] : i \in 1..Len(calls[1].resp.result)}
           /\ ListedCandidate \subseteq subdomains
           /\ PrintedWith("already deployed at", SiteUrl(candidateOf(argv)))

C5_Witness ==
    /\ AlreadyDeployedCase
    /\ pc = "done"
    /\ Len(argv) >= 2
    /\ remoteDirOf(argv) # getCurrentDirectory

\* C6: when the candidate is bound and owned by another user, the create
\* call deploySite issues carries a generated name, never the candidate name.
C6_OthersCandidateNotHosted ==
    (DeployListed /\ pc = "done"
        /\ \E b \in ListedCandidate : b.owner # getCurrentUserName)
        => /\ CallsOf("puter-subdomains.create") # {}
           /\ \A i \in CallsOf("puter-subdomains.create") :
                /\ calls[i].args.subdomain # candidateOf(argv)
                /\ calls[i].args.subdomain \in GenNames

\* the delete-site call before call i
SiteCallBefore(i) ==
    CHOOSE j \in CallsOf("delete-site") :
        j < i /\ \A h \in CallsOf("delete-site") : h < i => h <= j

\* C7: after a delete-site call for uuid u that answered OK, the subdomain
\* delete calls deleteSite issues carry the whole identifier u, one call for u.
C7_WholeUuidDeleted ==
    cmd = "deleteSite"
        => \A i \in CallsOf("puter-subdomains.delete") :
              /\ calls[i - 1].api = "delete-site"
              /\ calls[i].args.subdomain = calls[SiteCallBefore(i)].args.site_uuid

FailureMessages ==
    {"Failed to list apps", "Unable to list your apps",
     "Failed to create app, Error", "Failed to create app",
     "Failed to create directory", "Failed to create subdomain", "Failed to update app",
     "Failed to delete app", "Failed to delete app, P.S.",
     "Error deleting subdomain", "Error deleting site", "may already be deleted",
     "Failed to deploy app", "Error listing subdomains"}

\* some call of the invocation met a transport failure or a body that is no object
SomeCallBroken == \E i \in 1..Len(calls) : Broken(calls[i].resp)

\* C8: no command but listSubdomains ends in an exception: a transport
\* failure or malformed answer of any call ends in a printed message and a
\* normal return; listSubdomains prints and raises when its listing fails.
C8_OnlyListSubdomainsRaises ==
    pc = "done"
        => /\ cmd # "listSubdomains" => ret \in {"undefined", "true", "false"}
           /\ SomeCallBroken => \E m \in FailureMessages : Printed(m)
           /\ cmd = "listSubdomains"
                => (ret = "throw" <=> ListingFailed(calls[1].resp))
           /\ (cmd = "listSubdomains" /\ ret = "throw") => Printed("Error listing subdomains")

C8_Witness ==
    /\ pc = "done"
    /\ cmd = "deploySite"
    /\ Len(calls) = 2
    /\ calls[2].api = "puter-subdomains.create"
    /\ calls[2].resp.k = "throw"
    /\ ret = "undefined"
    /\ Printed("Failed to deploy app")

\* C9: deleteSubdomain given two or more ids issues no delete call after the first.
C9_OnlyFirstId ==
    (cmd = "deleteSubdomain" /\ Len(argv) >= 2) => Len(calls) <= 1

\* C9 as amended: deleteSubdomain given two or more ids stops after the first
\* delete call only when that call was refused; otherwise it goes on, and it
\* returns true only after a delete call for every id.
C9_AllIdsUnlessRefused ==
    (cmd = "deleteSubdomain" /\ Len(argv) >= 2 /\ pc = "done")
        => /\ Len(calls) >= 1
           /\ Len(calls) < Len(argv) => Refused(calls[Len(calls)].resp) /\ ret = "false"
           /\ ret = "true" <=> ~Refused(calls[Len(calls)].resp)
           /\ ret = "true" => Len(calls) = Len(argv)

C9_Witness ==
    /\ cmd = "deleteSubdomain"
    /\ pc = "done"
    /\ Len(argv) = 2
    /\ Len(calls) = 2
    /\ ~Refused(calls[1].resp)
    /\ ~Refused(calls[2].resp)
    /\ ret = "true"

\* C10: after the four steps of createApp succeeded, the index_url the update
\* call wrote names the subdomain the subdomain create call made, which is
\* the address createApp reports.
C10_IndexUrlIsCreatedSubdomain ==
    (cmd = "createApp" /\ pc = "done" /\ Len(calls) = 4 /\ StepSucceeded(calls[4]))
        => /\ calls[4].args.index_url = SiteUrl(calls[3].args.subdomain)
           /\ PrintedWith("App deployed successfully at", calls[4].args.index_url)

\* the candidate is bound, the current user's, and points at another directory
BoundElsewhereCase ==
    /\ DeployListed
    /\ \E b \in ListedCandidate :
            b.owner = getCurrentUserName /\ b.root_dir # remoteDirOf(argv)

\* C11: when the candidate is bound, owned by the current user and points at
\* another directory than the resolved one, deploySite issues, before any
\* create call, a puter-subdomains delete call whose id is the uid of that
\* binding; when the deletion succeeds it asks for a retry and returns without
\* a create call, and when it fails it reports that the subdomain could not
\* be released.
C11_UnbindByUid ==
    BoundElsewhereCase
        => /\ \A i \in CallsOf("puter-subdomains.delete") :
                \E b \in ListedCandidate : calls[i].args.subdomain = b.uid
           /\ \A i \in CallsOf("puter-subdomains.create") :
                \E j \in CallsOf("puter-subdomains.delete") : j < i
           /\ pc = "done" => CallsOf("puter-subdomains.delete") # {}
           /\ Printed("free again, please try again")
                => CallsOf("puter-subdomains.create") = {}
           /\ (pc = "done" /\ ~Printed("free again, please try again"))
                => Printed("Could not release this subdomain")

====
